---- MODULE Spec2Model ----
(***************************************************************************)
(* Call Report Dashboard (src/dashboard.py): one rendering pass of main()  *)
(* over one uploaded file, as a state machine.  The uploaded file and the  *)
(* behaviour of the charting library are the inputs; every function of the *)
(* module is an operator computed the way the code computes it, and main() *)
(* is cut into one action per statement group.                             *)
(*                                                                         *)
(* Values.  A column label or a file name is a tuple of characters (so     *)
(* that lower(), strip() and endswith() are computed, not assumed); a      *)
(* character is the one-character string, or "U+XXXX", its code point,     *)
(* where a string cannot hold it.  Labels are over the code points up to   *)
(* U+00FF and the Unicode spaces.  A cell of a table is [s |-> string], [t |-> <<day, half>>]   *)
(* (a Timestamp: day counted from 2024-01-15, half = 1 for 12:00) or NaN   *)
(* (a missing value, NaN or NaT).  A table is [cols |-> tuple of column    *)
(* labels, rows |-> tuple of rows, each a tuple of cells].                 *)
(***************************************************************************)
EXTENDS Integers, Sequences, FiniteSets, TLC

VARIABLES
    pc,         \* position of main()
    file,       \* uploaded_file: None or [name, format, content]
    df,         \* main's df: None or the table (one object, mutated in place)
    validated,  \* history: the table as validate_data returned it
    ui,         \* what streamlit was asked to show, in order
    metrics,    \* main's metrics: None or the mapping of get_key_metrics
    insights,   \* main's insights: None or [list |-> the list of generate_insights]
    ins_df,     \* the df.copy() handed to generate_insights, after the call
    trend_df,   \* the df.copy() handed to create_time_trend_chart, after the call
    charts,     \* the five chart slots, each "pending", None or a chart
    exports,    \* None or the two download artifacts
    raised      \* None or the exception that escaped main()

vars == <<pc, file, df, validated, ui, metrics, insights, ins_df, trend_df,
          charts, exports, raised>>

None == [none |-> TRUE]
NaN == [nan |-> TRUE]
Corrupt == [corrupt |-> TRUE]

(***************************************************************************)
(* Bounds of the model.                                                    *)
(***************************************************************************)
\* rows of an uploaded table
MaxRows == 2

(***************************************************************************)
(* Texts.                                                                  *)
(***************************************************************************)
\* the characters str.lower() changes, and what it makes of them
UpperChars == <<"A","B","C","D","E","F","G","H","I","J","K","L","M",
                "N","O","P","Q","R","S","T","U","V","W","X","Y","Z",
                "U+00C0","U+00C1","U+00C2","U+00C3","U+00C4","U+00C5",
                "U+00C6","U+00C7","U+00C8","U+00C9","U+00CA","U+00CB",
                "U+00CC","U+00CD","U+00CE","U+00CF","U+00D0","U+00D1",
                "U+00D2","U+00D3","U+00D4","U+00D5","U+00D6","U+00D8",
                "U+00D9","U+00DA","U+00DB","U+00DC","U+00DD","U+00DE">>
LowerChars == <<"a","b","c","d","e","f","g","h","i","j","k","l","m",
                "n","o","p","q","r","s","t","u","v","w","x","y","z",
                "U+00E0","U+00E1","U+00E2","U+00E3","U+00E4","U+00E5",
                "U+00E6","U+00E7","U+00E8","U+00E9","U+00EA","U+00EB",
                "U+00EC","U+00ED","U+00EE","U+00EF","U+00F0","U+00F1",
                "U+00F2","U+00F3","U+00F4","U+00F5","U+00F6","U+00F8",
                "U+00F9","U+00FA","U+00FB","U+00FC","U+00FD","U+00FE">>

\* the characters str.strip() removes (those str.isspace() accepts)
Whitespace == {" ", "\t", "\n", "\r", "\f", "U+000B",
               "U+001C", "U+001D", "U+001E", "U+001F", "U+0085", "U+00A0",
               "U+1680", "U+2000", "U+2001", "U+2002", "U+2003", "U+2004",
               "U+2005", "U+2006", "U+2007", "U+2008", "U+2009", "U+200A",
               "U+2028", "U+2029", "U+202F", "U+205F", "U+3000"}

\* str.lower() on one character
LowerChar(c) ==
    IF \E i \in 1..Len(UpperChars) : UpperChars[i] = c
    THEN LowerChars[CHOOSE i \in 1..Len(UpperChars) : UpperChars[i] = c]
    ELSE c

\* str.lower()
Lower(s) == [i \in 1..Len(s) |-> LowerChar(s[i])]

\* str.strip(): leading and trailing whitespace removed
Strip(s) ==
    LET keep == {i \in 1..Len(s) : s[i] \notin Whitespace}
    IN  IF keep = {} THEN <<>>
        ELSE LET lo == CHOOSE i \in keep : \A j \in keep : i <= j
                 hi == CHOOSE i \in keep : \A j \in keep : j <= i
             IN  SubSeq(s, lo, hi)

\* str.endswith(suffix)
EndsWith(s, suffix) ==
    /\ Len(suffix) <= Len(s)
    /\ SubSeq(s, Len(s) - Len(suffix) + 1, Len(s)) = suffix

\* x in list
InList(x, list) == \E i \in 1..Len(list) : list[i] = x

representative == <<"r","e","p","r","e","s","e","n","t","a","t","i","v","e">>
doctor == <<"d","o","c","t","o","r">>
division == <<"d","i","v","i","s","i","o","n">>
date == <<"d","a","t","e">>

ext_csv == <<".","c","s","v">>
ext_xlsx == <<".","x","l","s","x">>
ext_xls == <<".","x","l","s">>

(***************************************************************************)
(* load_data                                                               *)
(***************************************************************************)
\* pd.read_csv(file): the table of a well-formed CSV file, else it raises
read_csv(f) ==
    IF f.format = "csv" /\ f.content # Corrupt
    THEN [raised |-> None, df |-> f.content]
    ELSE [raised |-> [exc |-> "ParserError"], df |-> None]

\* pd.read_excel(file): the table of a well-formed workbook, else it raises
read_excel(f) ==
    IF f.format = "excel" /\ f.content # Corrupt
    THEN [raised |-> None, df |-> f.content]
    ELSE [raised |-> [exc |-> "ValueError"], df |-> None]

\* load_data without the else branch of line 37: any other name is read as CSV
load_data_any_extension(f) ==
    LET parsed == IF EndsWith(f.name, ext_xlsx) \/ EndsWith(f.name, ext_xls)
                  THEN read_excel(f)
                  ELSE read_csv(f)
    IN  IF parsed.raised # None
        THEN [df |-> None,
              ui |-> <<[kind |-> "error", msg |-> "Error loading file",
                        exc |-> parsed.raised.exc]>>]
        ELSE [df |-> parsed.df, ui |-> <<>>]

\* load_data(file): [df, ui], ui the messages shown
load_data(f) ==
    LET parsed == IF EndsWith(f.name, ext_csv) THEN read_csv(f)
                  ELSE IF EndsWith(f.name, ext_xlsx) \/ EndsWith(f.name, ext_xls)
                       THEN read_excel(f)
                       ELSE [unsupported |-> TRUE]
    IN  IF parsed = [unsupported |-> TRUE]
        THEN [df |-> None,
              ui |-> <<[kind |-> "error", msg |-> "Unsupported file format"]>>]
        ELSE IF parsed.raised # None
             THEN [df |-> None,
                   ui |-> <<[kind |-> "error", msg |-> "Error loading file",
                             exc |-> parsed.raised.exc]>>]
             ELSE [df |-> parsed.df, ui |-> <<>>]

(***************************************************************************)
(* validate_data                                                           *)
(***************************************************************************)
required_columns == <<representative, doctor, division, date>>

\* the list comprehension of line 48
missing_columns(d) ==
    LET lowered == [i \in 1..Len(d.cols) |-> Lower(d.cols[i])]
        absent(col) == ~InList(col, lowered)
    IN  SelectSeq(required_columns, absent)

\* df.columns.str.lower().str.strip()
NormalizeColumns(cols) == [i \in 1..Len(cols) |-> Strip(Lower(cols[i]))]

\* validate_data(df): [df, ui]; df is the same object with new labels
validate_data(d) ==
    LET missing == missing_columns(d)
    IN  [df |-> [d EXCEPT !.cols = NormalizeColumns(d.cols)],
         ui |-> IF missing # <<>>
                THEN <<[kind |-> "warning", missing |-> missing],
                       [kind |-> "info", msg |-> "expected columns"]>>
                ELSE <<>>]

(***************************************************************************)
(* pandas: columns, counts, dates                                          *)
(***************************************************************************)
\* the positions of the columns labelled name
ColIdx(d, name) == {i \in 1..Len(d.cols) : d.cols[i] = name}

\* name in df.columns
HasCol(d, name) == ColIdx(d, name) # {}

\* df[name] is a DataFrame, not a Series: the label occurs more than once
IsFrame(d, name) == Cardinality(ColIdx(d, name)) > 1

\* column i of the table, as the tuple of its cells
ColumnAt(d, i) == [r \in 1..Len(d.rows) |-> d.rows[r][i]]

\* df[name] where the label occurs once
Column(d, name) == ColumnAt(d, CHOOSE i \in ColIdx(d, name) : TRUE)

\* the non-missing values of a Series
Values(col) == {col[r] : r \in 1..Len(col)} \ {NaN}

\* Series.nunique(): missing values are not counted
nunique(col) == Cardinality(Values(col))

\* the number of cells of a Series equal to v
CountOf(col, v) == Cardinality({r \in 1..Len(col) : col[r] = v})

\* Series.value_counts(): <<value, count>> by falling count, missing values
\* dropped, equal counts in the order of first appearance
value_counts(col) ==
    LET vals == Values(col)
        first(v) == CHOOSE r \in 1..Len(col) :
                        col[r] = v /\ \A q \in 1..Len(col) : col[q] = v => r <= q
        before(v, w) == \/ CountOf(col, v) > CountOf(col, w)
                        \/ /\ CountOf(col, v) = CountOf(col, w)
                           /\ first(v) < first(w)
        rank(v) == Cardinality({w \in vals : before(w, v)}) + 1
    IN  [k \in 1..Cardinality(vals) |->
            LET v == CHOOSE w \in vals : rank(w) = k
            IN  <<v, CountOf(col, v)>>]

\* Series.head(n) / DataFrame.head(n)
head(seq, n) == SubSeq(seq, 1, IF Len(seq) < n THEN Len(seq) ELSE n)

\* the date strings the parser knows, by day counted from 2024-01-15
DateTexts == <<"2024-01-15", "2024-01-16", "2024-01-17", "2024-01-18">>

\* pd.to_datetime(value, errors='coerce') on one cell
to_datetime_cell(c) ==
    IF c = NaN THEN NaN
    ELSE IF "t" \in DOMAIN c THEN c
    ELSE IF \E k \in 1..Len(DateTexts) : DateTexts[k] = c.s
         THEN [t |-> <<(CHOOSE k \in 1..Len(DateTexts) : DateTexts[k] = c.s) - 1, 0>>]
         ELSE NaN

\* pd.to_datetime(series, errors='coerce')
to_datetime(col) == [r \in 1..Len(col) |-> to_datetime_cell(col[r])]

\* df[name] = values, on the table itself
SetColumn(d, name, values) ==
    LET i == CHOOSE j \in ColIdx(d, name) : TRUE
    IN  [d EXCEPT !.rows = [r \in 1..Len(d.rows) |->
                               [d.rows[r] EXCEPT ![i] = values[r]]]]

\* df.dropna(subset=[name]): a new table
dropna(d, name) ==
    LET i == CHOOSE j \in ColIdx(d, name) : TRUE
        present(row) == row[i] # NaN
    IN  [d EXCEPT !.rows = SelectSeq(d.rows, present)]

\* Timestamp order
TsLeq(a, b) == a[1] < b[1] \/ (a[1] = b[1] /\ a[2] <= b[2])

\* Series.min() / Series.max() of a column of Timestamps
TsMin(col) == CHOOSE a \in {col[r].t : r \in 1..Len(col)} :
                  \A r \in 1..Len(col) : TsLeq(a, col[r].t)
TsMax(col) == CHOOSE a \in {col[r].t : r \in 1..Len(col)} :
                  \A r \in 1..Len(col) : TsLeq(col[r].t, a)

\* (hi - lo).days for lo <= hi: whole days, the part of a day dropped
TimedeltaDays(hi, lo) == (hi[1] - lo[1]) - (IF hi[2] < lo[2] THEN 1 ELSE 0)

\* max(a, b)
Max(a, b) == IF a >= b THEN a ELSE b

\* f"{n / d:.1f}" for d > 0 as <<units, tenths>>: the quotient rounded to a
\* tenth, a tie to the even tenth (ties are quarters, exact in binary, for
\* d below 20)
Format1(n, d) ==
    LET q0 == (10 * n) \div d
        r  == (10 * n) % d
        q  == IF 2 * r < d THEN q0
              ELSE IF 2 * r > d THEN q0 + 1
              ELSE IF q0 % 2 = 0 THEN q0 ELSE q0 + 1
    IN  <<q \div 10, q % 10>>

(***************************************************************************)
(* get_key_metrics                                                         *)
(***************************************************************************)
\* a metric: an integer, or the Series DataFrame.nunique() gives when the
\* label names several columns
Scalar(n) == [int |-> n]
IsScalar(m) == "int" \in DOMAIN m

\* df[name].nunique()
NuniqueOf(d, name) ==
    IF IsFrame(d, name)
    THEN [series |-> [k \in ColIdx(d, name) |-> nunique(ColumnAt(d, k))]]
    ELSE Scalar(nunique(Column(d, name)))

\* get_key_metrics(df): the mapping from metric name to value
get_key_metrics(d) ==
    LET keys == {"total_calls"}
                \cup (IF HasCol(d, representative) THEN {"total_reps"} ELSE {})
                \cup (IF HasCol(d, doctor) THEN {"total_doctors"} ELSE {})
                \cup (IF HasCol(d, division) THEN {"total_divisions"} ELSE {})
    IN  [k \in keys |->
            IF k = "total_calls" THEN Scalar(Len(d.rows))
            ELSE IF k = "total_reps" THEN NuniqueOf(d, representative)
            ELSE IF k = "total_doctors" THEN NuniqueOf(d, doctor)
            ELSE NuniqueOf(d, division)]

(***************************************************************************)
(* generate_insights                                                       *)
(***************************************************************************)
\* df[name] as one tuple of cells; where the label names several columns
\* (a DataFrame) each row counts as one value, missing when any part is
Selected(d, name) ==
    IF IsFrame(d, name)
    THEN [r \in 1..Len(d.rows) |->
            IF \E k \in ColIdx(d, name) : d.rows[r][k] = NaN THEN NaN
            ELSE [row |-> [k \in ColIdx(d, name) |-> d.rows[r][k]]]]
    ELSE Column(d, name)

Raise(e) == [raised |-> [exc |-> e], out |-> <<>>]
Ok(out) == [raised |-> None, out |-> out]

\* metrics['total_calls'] / metrics[key] formatted with :.1f (lines 174-175,
\* 184-185)
AverageInsight(m, key, kind) ==
    IF key \notin DOMAIN m THEN Raise("KeyError")
    ELSE IF ~IsScalar(m[key]) THEN Raise("TypeError")
    ELSE IF m[key].int = 0 THEN Raise("ZeroDivisionError")
    ELSE Ok(<<[kind |-> kind,
               value |-> Format1(m["total_calls"].int, m[key].int)]>>)

\* df[name].value_counts().index[0] and .values[0] (lines 178-180, 189-191)
TopInsight(d, name, kind) ==
    LET vc == value_counts(Selected(d, name))
    IN  IF vc = <<>> THEN Raise("IndexError")
        ELSE Ok(<<[kind |-> kind, name |-> vc[1][1], calls |-> vc[1][2]]>>)

\* lines 172-180
RepresentativeInsights(d, m) ==
    IF ~HasCol(d, representative) THEN Ok(<<>>)
    ELSE LET avg == AverageInsight(m, "total_reps", "avg_calls_per_rep")
         IN  IF avg.raised # None THEN avg
             ELSE LET top == TopInsight(d, representative, "top_performer")
                  IN  IF top.raised # None THEN top
                      ELSE Ok(avg.out \o top.out)

\* lines 182-185
DoctorInsights(d, m) ==
    IF ~HasCol(d, doctor) THEN Ok(<<>>)
    ELSE AverageInsight(m, "total_doctors", "avg_visits_per_doctor")

\* lines 187-191
DivisionInsights(d) ==
    IF ~HasCol(d, division) THEN Ok(<<>>)
    ELSE TopInsight(d, division, "most_active_division")

\* lines 193-206 with the rows dropped from the argument itself
\* (dropna(inplace=True))
DateInsights_dropna_in_place(d) ==
    IF ~HasCol(d, date) \/ IsFrame(d, date) THEN [out |-> <<>>, df |-> d]
    ELSE LET arg   == SetColumn(d, date, to_datetime(Column(d, date)))
             local == dropna(arg, date)
             n     == Len(local.rows)
         IN  IF n > 0
             THEN LET col == Column(local, date)
                      date_range == TimedeltaDays(TsMax(col), TsMin(col))
                  IN  [out |-> <<[kind |-> "data_covers_days", days |-> date_range],
                                 [kind |-> "avg_daily_calls",
                                  value |-> Format1(n, Max(date_range, 1))]>>,
                       df |-> local]
             ELSE [out |-> <<>>, df |-> local]

\* lines 193-206: [out, df], df the argument table after the block.  The
\* conversion of several columns labelled date raises inside the try and is
\* swallowed, before the table is touched.
DateInsights(d) ==
    IF ~HasCol(d, date) \/ IsFrame(d, date) THEN [out |-> <<>>, df |-> d]
    ELSE LET arg   == SetColumn(d, date, to_datetime(Column(d, date)))
             local == dropna(arg, date)
             n     == Len(local.rows)
         IN  IF n > 0
             THEN LET col == Column(local, date)
                      date_range == TimedeltaDays(TsMax(col), TsMin(col))
                  IN  [out |-> <<[kind |-> "data_covers_days", days |-> date_range],
                                 [kind |-> "avg_daily_calls",
                                  value |-> Format1(n, Max(date_range, 1))]>>,
                       df |-> arg]
             ELSE [out |-> <<>>, df |-> arg]

\* generate_insights(df, metrics): [raised, insights, df], df the argument
\* table as the call leaves it
generate_insights(d, m) ==
    LET rep == RepresentativeInsights(d, m)
        doc == DoctorInsights(d, m)
        dvs == DivisionInsights(d)
        dat == DateInsights(d)
    IN  IF rep.raised # None
        THEN [raised |-> rep.raised, insights |-> None, df |-> d]
        ELSE IF doc.raised # None
        THEN [raised |-> doc.raised, insights |-> None, df |-> d]
        ELSE IF dvs.raised # None
        THEN [raised |-> dvs.raised, insights |-> None, df |-> d]
        ELSE [raised |-> None,
              insights |-> rep.out \o doc.out \o dvs.out \o dat.out,
              df |-> dat.df]

(***************************************************************************)
(* The chart builders.  fault: the plotly call of the builder raises.      *)
(* Each gives [raised, fig, df, ui]: the exception that leaves the         *)
(* function, the figure or None, the argument table after the call, the    *)
(* messages shown.                                                         *)
(***************************************************************************)
\* the bar charts show 10 representatives (line 87) and 15 doctors (line 146)
TopRepresentatives == 10
TopDoctors == 15

Built(fig, d) == [raised |-> None, fig |-> fig, df |-> d, ui |-> <<>>]
Failed(e, d) == [raised |-> [exc |-> e], fig |-> None, df |-> d, ui |-> <<>>]

\* lines 84-94, 101-109, 142-153: value_counts().reset_index(), two column
\* names assigned (a length mismatch when df[name] is a DataFrame), the plot
CountChart(d, name, kind, top, fault) ==
    IF ~HasCol(d, name) THEN Built(None, d)
    ELSE IF IsFrame(d, name) THEN Failed("ValueError", d)
    ELSE IF fault THEN Failed("PlotlyError", d)
    ELSE Built([kind |-> kind,
                data |-> head(value_counts(Column(d, name)), top)], d)

create_rep_performance_chart(d, fault) ==
    CountChart(d, representative, "bar", TopRepresentatives, fault)

create_division_analysis_chart(d, fault) ==
    LET n == Len(d.rows)
    IN  CountChart(d, division, "pie", n, fault)

create_doctor_engagement_chart(d, fault) ==
    CountChart(d, doctor, "barh", TopDoctors, fault)

\* df.groupby(df['date'].dt.date).size(): <<day, count>> by rising day
daily_calls(col) ==
    LET days == {col[r].t[1] : r \in 1..Len(col)}
        rank(x) == Cardinality({y \in days : y < x}) + 1
        size(x) == Cardinality({r \in 1..Len(col) : col[r].t[1] = x})
    IN  [k \in 1..Cardinality(days) |->
            LET x == CHOOSE y \in days : rank(y) = k
            IN  <<x, size(x)>>]

\* create_time_trend_chart(df): the whole body after the column test is in
\* a try whose handler warns and returns None
create_time_trend_chart(d, fault) ==
    IF ~HasCol(d, date) THEN Built(None, d)
    ELSE IF IsFrame(d, date)
    THEN [raised |-> None, fig |-> None, df |-> d,
          ui |-> <<[kind |-> "warning", msg |-> "Could not create time trend chart",
                    exc |-> "ValueError"]>>]
    ELSE LET arg   == SetColumn(d, date, to_datetime(Column(d, date)))
             local == dropna(arg, date)
         IN  IF Len(local.rows) = 0 THEN Built(None, arg)
             ELSE IF fault
             THEN [raised |-> None, fig |-> None, df |-> arg,
                   ui |-> <<[kind |-> "warning",
                             msg |-> "Could not create time trend chart",
                             exc |-> "PlotlyError"]>>]
             ELSE Built([kind |-> "line",
                         data |-> daily_calls(Column(local, date))], arg)

\* pd.crosstab(df['division'], df['representative']): the rows holding both
\* values, counted per pair
crosstab(d) ==
    LET dv   == Column(d, division)
        rp   == Column(d, representative)
        both == {r \in 1..Len(d.rows) : dv[r] # NaN /\ rp[r] # NaN}
        index   == {dv[r] : r \in both}
        columns == {rp[r] : r \in both}
    IN  [index |-> index, columns |-> columns,
         cell |-> [p \in index \X columns |->
                      Cardinality({r \in both : dv[r] = p[1] /\ rp[r] = p[2]})]]

create_cross_analysis(d, fault) ==
    IF ~HasCol(d, division) \/ ~HasCol(d, representative) THEN Built(None, d)
    ELSE IF IsFrame(d, division) \/ IsFrame(d, representative)
    THEN Failed("ValueError", d)
    ELSE IF fault THEN Failed("PlotlyError", d)
    ELSE Built([kind |-> "heatmap", data |-> crosstab(d)], d)

(***************************************************************************)
(* The export section of main (lines 330-353)                              *)
(***************************************************************************)
\* one field of DataFrame.to_csv(): a missing value is the empty field, a
\* Timestamp is its date, followed by the time when some Timestamp of the
\* column has one
CsvField(d, i, c) ==
    IF c = NaN THEN <<>>
    ELSE IF "s" \in DOMAIN c THEN <<c.s>>
    ELSE IF \E r \in 1..Len(d.rows) :
                /\ d.rows[r][i] # NaN
                /\ "t" \in DOMAIN d.rows[r][i]
                /\ d.rows[r][i].t[2] # 0
         THEN <<DateTexts[c.t[1] + 1], IF c.t[2] = 0 THEN "00:00:00" ELSE "12:00:00">>
         ELSE <<DateTexts[c.t[1] + 1]>>

\* df.to_csv(index=False): the header line and one line per row
to_csv(d) ==
    [header |-> d.cols,
     lines  |-> [r \in 1..Len(d.rows) |->
                    [i \in 1..Len(d.cols) |-> CsvField(d, i, d.rows[r][i])]]]

\* df.describe(include='all'): of the statistics, the count row (the
\* non-missing cells of every column)
describe(d) ==
    [header |-> d.cols,
     count  |-> [i \in 1..Len(d.cols) |->
                    Cardinality({r \in 1..Len(d.rows) : d.rows[r][i] # NaN})]]

(***************************************************************************)
(* The uploaded files                                                      *)
(***************************************************************************)
\* "Representative" followed by a no-break space
RepresentativePadded ==
    <<"R","e","p","r","e","s","e","n","t","a","t","i","v","e","U+00A0">>
DivisionCapital == <<"D","i","v","i","s","i","o","n">>
DatePadded == <<" ","D","a","t","e">>

\* the column labels of the uploaded tables, in a fixed order
RawHeaders == <<representative, RepresentativePadded, doctor, division, DivisionCapital,
                date, DatePadded>>

\* the tables have one or two of these columns, in this order (no function
\* of the program reads more than two columns together, or their order)
Schemas ==
    {<<RawHeaders[i]>> : i \in 1..Len(RawHeaders)}
    \cup {<<RawHeaders[p[1]], RawHeaders[p[2]]>> :
            p \in {q \in (1..Len(RawHeaders)) \X (1..Len(RawHeaders)) : q[1] < q[2]}}

Str(x) == [s |-> x]

\* the cells a column holds, by what its label names; a workbook holds
\* Timestamps where a CSV file holds date strings
CellsOf(label, excel) ==
    LET name == Strip(Lower(label))
    IN  IF name = representative THEN {Str("John Doe"), Str("Jane Smith"), NaN}
        ELSE IF name = doctor THEN {Str("Dr. Smith"), Str("Dr. Jones"), NaN}
        ELSE IF name = division THEN {Str("Cardiology"), Str("Oncology"), NaN}
        ELSE IF excel THEN {[t |-> <<0, 0>>], [t |-> <<0, 1>>], [t |-> <<1, 0>>], NaN}
        ELSE {Str("2024-01-15"), Str("2024-01-17"), Str("not-a-date")}

RowsOf(cols, excel) ==
    LET all == UNION {CellsOf(cols[i], excel) : i \in 1..Len(cols)}
    IN  {row \in [1..Len(cols) -> all] :
            \A i \in 1..Len(cols) : row[i] \in CellsOf(cols[i], excel)}

TablesOf(cols, excel) ==
    {[cols |-> cols, rows |-> rows] :
        rows \in UNION {[1..n -> RowsOf(cols, excel)] : n \in 0..MaxRows}}

\* an uploaded table of two rows, the example of the specification's
\* section 8
SpecSample ==
    [cols |-> <<representative, doctor, division, date>>,
     rows |-> << <<Str("John Doe"), Str("Dr. Smith"), Str("Cardiology"),
                   Str("2024-01-15")>>,
                 <<Str("John Doe"), Str("Dr. Jones"), Str("Cardiology"),
                   Str("2024-01-16")>> >>]

call_type == <<"c","a","l","l","_","t","y","p","e">>
outcome == <<"o","u","t","c","o","m","e">>

\* lines 370-377: the table main shows as the expected structure
sample_data ==
    [cols |-> <<representative, doctor, division, date, call_type, outcome>>,
     rows |-> << <<Str("John Doe"), Str("Dr. Smith"), Str("Cardiology"),
                   Str("2024-01-15"), Str("In-person"), Str("Positive")>>,
                 <<Str("Jane Smith"), Str("Dr. Jones"), Str("Oncology"),
                   Str("2024-01-16"), Str("Virtual"), Str("Positive")>>,
                 <<Str("Bob Johnson"), Str("Dr. Brown"), Str("Cardiology"),
                   Str("2024-01-16"), Str("In-person"), Str("Follow-up needed")>>,
                 <<Str("Alice Williams"), Str("Dr. Davis"), Str("Neurology"),
                   Str("2024-01-17"), Str("Phone"), Str("Positive")>> >>]

\* the CSV files: the bounded tables, the two-row example, and a file made
\* after the structure main shows
CsvTables ==
    UNION {TablesOf(cols, FALSE) : cols \in Schemas} \cup {SpecSample, sample_data}

ExcelTables ==
    UNION {TablesOf(cols, TRUE) :
             cols \in {c \in Schemas : \E i \in 1..Len(c) : Strip(Lower(c[i])) = date}}

FileNames == { <<"a">> \o ext_csv, <<"a">> \o ext_xlsx, <<"a">> \o ext_xls,
               <<"a", ".", "C", "S", "V">>, <<"a", ".", "t", "x", "t">> }

\* what load_data can be handed: well-formed files under their own
\* extension, and every name with either format holding the sample or
\* unreadable bytes (the uploader filters extensions without regard to
\* case, so a.CSV passes it; a.txt stands for any other name)
Uploads ==
    {[name |-> <<"a">> \o ext_csv, format |-> "csv", content |-> t] : t \in CsvTables}
    \cup {[name |-> <<"a">> \o ext_xlsx, format |-> "excel", content |-> t] :
            t \in ExcelTables}
    \cup {[name |-> n, format |-> f, content |-> c] :
            n \in FileNames, f \in {"csv", "excel"}, c \in {SpecSample, Corrupt}}

(***************************************************************************)
(* main                                                                    *)
(***************************************************************************)
Pending == [pending |-> TRUE]

Init ==
    /\ pc = "start"
    /\ file \in Uploads \cup {None}
    /\ df = None
    /\ validated = None
    /\ ui = <<>>
    /\ metrics = None
    /\ insights = None
    /\ ins_df = None
    /\ trend_df = None
    /\ charts = [rep |-> Pending, division |-> Pending, trend |-> Pending,
                 doctor |-> Pending, cross |-> Pending]
    /\ exports = None
    /\ raised = None

\* lines 355-378: nothing was uploaded
NoUpload ==
    /\ pc = "start"
    /\ file = None
    /\ ui' = ui \o <<[kind |-> "info", msg |-> "Please upload"],
                     [kind |-> "dataframe", data |-> sample_data]>>
    /\ pc' = "done"
    /\ UNCHANGED <<file, df, validated, metrics, insights, ins_df, trend_df,
                   charts, exports, raised>>

\* lines 251-255: df = load_data(uploaded_file); if df is not None
Load ==
    /\ pc = "start"
    /\ file # None
    /\ LET r == load_data(file)
       IN  /\ df' = r.df
           /\ ui' = ui \o r.ui
           /\ pc' = IF r.df # None THEN "validate" ELSE "done"
    /\ UNCHANGED <<file, validated, metrics, insights, ins_df, trend_df,
                   charts, exports, raised>>

\* lines 256-265: df = validate_data(df), the success line, the preview
Validate ==
    /\ pc = "validate"
    /\ LET r == validate_data(df)
       IN  /\ df' = r.df
           /\ validated' = r.df
           /\ ui' = ui \o r.ui
                       \o <<[kind |-> "success", name |-> file.name],
                            [kind |-> "preview", rows |-> Len(r.df.rows),
                             columns |-> Len(r.df.cols)]>>
    /\ pc' = "metrics"
    /\ UNCHANGED <<file, metrics, insights, ins_df, trend_df, charts, exports,
                   raised>>

\* the metrics in the order main shows them
MetricOrder == <<"total_calls", "total_reps", "total_doctors", "total_divisions">>

\* lines 270-288: f"{value:,}" per metric present (the digits of the count,
\* grouped by thousands: below 1000 the digits alone); a Series has no such
\* format, and the TypeError ends the pass after the metrics shown so far
DisplayMetrics(m) ==
    LET present(k) == k \in DOMAIN m
        keys == SelectSeq(MetricOrder, present)
        bad  == {i \in 1..Len(keys) : ~IsScalar(m[keys[i]])}
        stop == IF bad = {} THEN Len(keys) + 1
                ELSE CHOOSE i \in bad : \A j \in bad : i <= j
    IN  [raised |-> IF bad = {} THEN None ELSE [exc |-> "TypeError"],
         ui |-> [i \in 1..(stop - 1) |->
                    [kind |-> "metric", key |-> keys[i], value |-> m[keys[i]].int]]]

\* lines 267-288: metrics = get_key_metrics(df), then the metric widgets
Metrics ==
    /\ pc = "metrics"
    /\ LET m == get_key_metrics(df)
           shown == DisplayMetrics(m)
       IN  /\ metrics' = m
           /\ ui' = ui \o shown.ui
           /\ raised' = shown.raised
           /\ pc' = IF shown.raised = None THEN "insights" ELSE "done"
    /\ UNCHANGED <<file, df, validated, insights, ins_df, trend_df, charts,
                   exports>>

\* the call sites of lines 292 and 313 without .copy(): main's table is the
\* argument
AfterCallSharingTable(d, arg_after) == arg_after

\* f(df.copy()): main's table is another object than the argument, whatever
\* the call does to the argument (lines 292, 313)
AfterCallWithCopy(d, arg_after) == d

\* f(df): main's table is the argument (lines 303, 308, 321, 326)
AfterCall(d, arg_after) == arg_after

\* lines 290-294: insights = generate_insights(df.copy(), metrics), shown
Insights ==
    /\ pc = "insights"
    /\ LET r == generate_insights(df, metrics)
       IN  /\ ins_df' = r.df
           /\ df' = AfterCallWithCopy(df, r.df)
           /\ insights' = IF r.raised = None THEN [list |-> r.insights] ELSE None
           /\ raised' = r.raised
           /\ ui' = IF r.raised = None
                    THEN ui \o [i \in 1..Len(r.insights) |->
                                   [kind |-> "insight", text |-> r.insights[i]]]
                    ELSE ui
           /\ pc' = IF r.raised = None THEN "rep_chart" ELSE "done"
    /\ UNCHANGED <<file, validated, metrics, trend_df, charts, exports>>

\* fig = builder(df); if fig: st.plotly_chart(fig)
ShowChart(r) == r.ui \o (IF r.fig # None THEN <<[kind |-> "chart", fig |-> r.fig]>>
                         ELSE <<>>)

\* lines 302-305
RepChart ==
    /\ pc = "rep_chart"
    /\ \E fault \in BOOLEAN :
        LET r == create_rep_performance_chart(df, fault)
        IN  /\ df' = AfterCall(df, r.df)
            /\ raised' = r.raised
            /\ charts' = IF r.raised = None THEN [charts EXCEPT !.rep = r.fig]
                         ELSE charts
            /\ ui' = IF r.raised = None THEN ui \o ShowChart(r) ELSE ui
            /\ pc' = IF r.raised = None THEN "division_chart" ELSE "done"
    /\ UNCHANGED <<file, validated, metrics, insights, ins_df, trend_df, exports>>

\* lines 307-310
DivisionChart ==
    /\ pc = "division_chart"
    /\ \E fault \in BOOLEAN :
        LET r == create_division_analysis_chart(df, fault)
        IN  /\ df' = AfterCall(df, r.df)
            /\ raised' = r.raised
            /\ charts' = IF r.raised = None THEN [charts EXCEPT !.division = r.fig]
                         ELSE charts
            /\ ui' = IF r.raised = None THEN ui \o ShowChart(r) ELSE ui
            /\ pc' = IF r.raised = None THEN "time_trend" ELSE "done"
    /\ UNCHANGED <<file, validated, metrics, insights, ins_df, trend_df, exports>>

\* lines 312-315
TimeTrend ==
    /\ pc = "time_trend"
    /\ \E fault \in BOOLEAN :
        LET r == create_time_trend_chart(df, fault)
        IN  /\ trend_df' = r.df
            /\ df' = AfterCallWithCopy(df, r.df)
            /\ raised' = r.raised
            /\ charts' = IF r.raised = None THEN [charts EXCEPT !.trend = r.fig]
                         ELSE charts
            /\ ui' = IF r.raised = None THEN ui \o ShowChart(r) ELSE ui
            /\ pc' = IF r.raised = None THEN "doctor_chart" ELSE "done"
    /\ UNCHANGED <<file, validated, metrics, insights, ins_df, exports>>

\* lines 320-323
DoctorChart ==
    /\ pc = "doctor_chart"
    /\ \E fault \in BOOLEAN :
        LET r == create_doctor_engagement_chart(df, fault)
        IN  /\ df' = AfterCall(df, r.df)
            /\ raised' = r.raised
            /\ charts' = IF r.raised = None THEN [charts EXCEPT !.doctor = r.fig]
                         ELSE charts
            /\ ui' = IF r.raised = None THEN ui \o ShowChart(r) ELSE ui
            /\ pc' = IF r.raised = None THEN "cross_analysis" ELSE "done"
    /\ UNCHANGED <<file, validated, metrics, insights, ins_df, trend_df, exports>>

\* lines 325-328
CrossAnalysis ==
    /\ pc = "cross_analysis"
    /\ \E fault \in BOOLEAN :
        LET r == create_cross_analysis(df, fault)
        IN  /\ df' = AfterCall(df, r.df)
            /\ raised' = r.raised
            /\ charts' = IF r.raised = None THEN [charts EXCEPT !.cross = r.fig]
                         ELSE charts
            /\ ui' = IF r.raised = None THEN ui \o ShowChart(r) ELSE ui
            /\ pc' = IF r.raised = None THEN "export" ELSE "done"
    /\ UNCHANGED <<file, validated, metrics, insights, ins_df, trend_df, exports>>

\* lines 330-353: the two download buttons
Export ==
    /\ pc = "export"
    /\ exports' = [summary |-> describe(df), data |-> to_csv(df)]
    /\ ui' = ui \o <<[kind |-> "download", artifact |-> "call_report_summary.csv"],
                     [kind |-> "download", artifact |-> "call_report_processed.csv"]>>
    /\ pc' = "done"
    /\ UNCHANGED <<file, df, validated, metrics, insights, ins_df, trend_df,
                   charts, raised>>

Next ==
    \/ NoUpload
    \/ Load
    \/ Validate
    \/ Metrics
    \/ Insights
    \/ RepChart
    \/ DivisionChart
    \/ TimeTrend
    \/ DoctorChart
    \/ CrossAnalysis
    \/ Export

Spec == Init /\ [][Next]_vars

(***************************************************************************)
(* Vocabulary of the properties                                            *)
(***************************************************************************)
\* generate_insights has been called in this pass (insights is None after
\* the call exactly when it raised)
InsightsCalled == ins_df # None

\* the number of distinct non-missing values of a column, counted by first
\* occurrences
Distinct(col) ==
    Cardinality({r \in 1..Len(col) :
                    col[r] # NaN /\ \A q \in 1..(r - 1) : col[q] # col[r]})

\* the label names exactly one column of the table
OneColumn(d, name) == HasCol(d, name) /\ ~IsFrame(d, name)

\* the rows of the table whose date parses, and their Timestamps
ParsedRows(d) ==
    {r \in 1..Len(d.rows) : to_datetime_cell(Column(d, date)[r]) # NaN}
ParsedDates(d) ==
    {to_datetime_cell(Column(d, date)[r]).t : r \in ParsedRows(d)}

\* whole days from the earliest to the latest parsed date
Span(d) ==
    LET lo == CHOOSE a \in ParsedDates(d) : \A b \in ParsedDates(d) : TsLeq(a, b)
        hi == CHOOSE a \in ParsedDates(d) : \A b \in ParsedDates(d) : TsLeq(b, a)
    IN  CHOOSE n \in 0..Len(DateTexts) :
            \/ /\ hi[2] >= lo[2]
               /\ hi[1] = lo[1] + n
            \/ /\ hi[2] < lo[2]
               /\ hi[1] = lo[1] + n + 1

\* the kinds of the insights shown
InsightKinds == {insights.list[i].kind : i \in 1..Len(insights.list)}

SupportedName(n) ==
    EndsWith(n, ext_csv) \/ EndsWith(n, ext_xlsx) \/ EndsWith(n, ext_xls)

\* the parser the extension selects raises on the file
ParserRaises(f) ==
    \/ f.content = Corrupt
    \/ EndsWith(f.name, ext_csv) /\ f.format # "csv"
    \/ ~EndsWith(f.name, ext_csv) /\ f.format # "excel"

NothingProcessed ==
    /\ validated = None
    /\ metrics = None
    /\ insights = None
    /\ ins_df = None
    /\ trend_df = None
    /\ \A slot \in DOMAIN charts : charts[slot] = Pending
    /\ exports = None

(***************************************************************************)
(* C1.  get_key_metrics: for every table total_calls is the number of rows *)
(* of the table, and for each of representative, doctor, division that is  *)
(* present (the label is among the columns), the metric is the number of   *)
(* distinct values of that column; the two-row sample gives 2, 1, 2, 1.    *)
(***************************************************************************)
C1_KeyMetrics ==
    metrics # None =>
        /\ metrics["total_calls"] = Scalar(Len(file.content.rows))
        /\ \A p \in {<<"total_reps", representative>>, <<"total_doctors", doctor>>,
                     <<"total_divisions", division>>} :
              HasCol(validated, p[2]) =>
                  /\ p[1] \in DOMAIN metrics
                  /\ \E i \in ColIdx(validated, p[2]) :
                        metrics[p[1]] = Scalar(Distinct(ColumnAt(validated, i)))
        /\ file.content = SpecSample =>
              metrics = [total_calls |-> Scalar(2), total_reps |-> Scalar(1),
                         total_doctors |-> Scalar(2), total_divisions |-> Scalar(1)]

\* C1 where it holds: the same statement for the labels that name exactly
\* one column of the table (a missing value is not a value)
C1_SingleColumnMetrics ==
    metrics # None =>
        /\ metrics["total_calls"] = Scalar(Len(file.content.rows))
        /\ \A p \in {<<"total_reps", representative>>, <<"total_doctors", doctor>>,
                     <<"total_divisions", division>>} :
              OneColumn(validated, p[2]) =>
                  /\ p[1] \in DOMAIN metrics
                  /\ metrics[p[1]] = Scalar(Distinct(Column(validated, p[2])))
        /\ file.content = SpecSample =>
              metrics = [total_calls |-> Scalar(2), total_reps |-> Scalar(1),
                         total_doctors |-> Scalar(2), total_divisions |-> Scalar(1)]

\* the metrics of a full table whose one representative column holds a
\* name and a missing value
C1_SingleColumnWitness ==
    /\ metrics # None
    /\ OneColumn(validated, representative)
    /\ Len(validated.rows) = MaxRows
    /\ \E r \in 1..Len(validated.rows) :
          Column(validated, representative)[r] = NaN
    /\ metrics["total_reps"] = Scalar(1)

\* the metrics of a table with two columns labelled representative after
\* normalization: total_reps is a Series, and the pass ends in a TypeError
C1_DuplicatedLabel ==
    /\ metrics # None
    /\ IsFrame(validated, representative)
    /\ ~IsScalar(metrics["total_reps"])
    /\ raised = [exc |-> "TypeError"]

(***************************************************************************)
(* C2.  Without a representative column: no total_reps key, no             *)
(* representative chart, no representative insight, no error, and the      *)
(* insights of the columns present are produced.                           *)
(***************************************************************************)
C2_NoRepresentative ==
    (validated # None /\ ~HasCol(validated, representative)) =>
        /\ metrics # None => "total_reps" \notin DOMAIN metrics
        /\ charts.rep \in {Pending, None}
        /\ InsightsCalled =>
              /\ insights # None
              /\ InsightKinds \cap {"avg_calls_per_rep", "top_performer"} = {}
              /\ HasCol(validated, doctor) => "avg_visits_per_doctor" \in InsightKinds
              /\ HasCol(validated, division) => "most_active_division" \in InsightKinds

(***************************************************************************)
(* C3.  load_data yields a table exactly when the name ends in .csv, .xlsx *)
(* or .xls and the parser does not raise; otherwise one error is shown,    *)
(* no table is yielded and the pass does nothing more.                     *)
(***************************************************************************)
C3_LoadOrNothing ==
    (pc # "start" /\ file # None) =>
        IF SupportedName(file.name) /\ ~ParserRaises(file)
        THEN /\ df # None
             /\ df.rows = file.content.rows
        ELSE /\ df = None
             /\ pc = "done"
             /\ Len(ui) = 1
             /\ ui[1].kind = "error"
             /\ NothingProcessed

\* a parse exception under a supported name, and the pass over
C3_Witness ==
    /\ pc = "done"
    /\ file # None
    /\ SupportedName(file.name)
    /\ file.content = Corrupt
    /\ df = None
    /\ ui = <<[kind |-> "error", msg |-> "Error loading file", exc |-> "ParserError"]>>

(***************************************************************************)
(* C4.  An exception raised while a chart is built empties that slot only: *)
(* once the insights are shown, the pass fills all five slots and reaches  *)
(* the export section.                                                     *)
(***************************************************************************)
C4_NoCascade ==
    (pc = "done" /\ insights # None) =>
        /\ \A slot \in DOMAIN charts : charts[slot] # Pending
        /\ exports # None

(***************************************************************************)
(* C5.  With a date column of which a row parses, the insights report the  *)
(* span in whole days between the earliest and latest parsed date, and the *)
(* daily average total_calls / max(span, 1), total_calls as in the metrics.*)
(***************************************************************************)
C5_DailyAverage ==
    (insights # None /\ OneColumn(validated, date) /\ ParsedRows(validated) # {}) =>
        /\ \E i \in 1..Len(insights.list) :
              insights.list[i] = [kind |-> "data_covers_days", days |-> Span(validated)]
        /\ \E i \in 1..Len(insights.list) :
              insights.list[i] = [kind |-> "avg_daily_calls",
                             value |-> Format1(metrics["total_calls"].int,
                                               Max(Span(validated), 1))]

(***************************************************************************)
(* C5, what the code does instead: the daily average divides the number of *)
(* rows whose date parses, in every pass in which the insights are         *)
(* returned.                                                               *)
(***************************************************************************)
C5_ParsedRowAverage ==
    (insights # None /\ OneColumn(validated, date) /\ ParsedRows(validated) # {}) =>
        /\ \E i \in 1..Len(insights.list) :
              insights.list[i] = [kind |-> "data_covers_days", days |-> Span(validated)]
        /\ \E i \in 1..Len(insights.list) :
              insights.list[i] = [kind |-> "avg_daily_calls",
                                  value |-> Format1(Cardinality(ParsedRows(validated)),
                                                    Max(Span(validated), 1))]

(***************************************************************************)
(* C6.  With a date column, rows whose date does not parse are left out    *)
(* without any error: the daily counts of the trend chart sum to the       *)
(* number of parsed rows, the span comes from parsed rows, and when no row *)
(* parses there is no trend chart and no date insight while the other      *)
(* insights are returned.                                                  *)
(***************************************************************************)
C6_UnparseableDates ==
    (validated # None /\ OneColumn(validated, date)) =>
        /\ InsightsCalled =>
              /\ insights # None
              /\ ParsedRows(validated) = {} =>
                    InsightKinds \cap {"data_covers_days", "avg_daily_calls"} = {}
              /\ ParsedRows(validated) # {} =>
                    [kind |-> "data_covers_days", days |-> Span(validated)]
                        \in {insights.list[i] : i \in 1..Len(insights.list)}
        /\ charts.trend \notin {Pending, None} =>
              /\ ParsedRows(validated) # {}
              /\ {charts.trend.data[k][1] : k \in 1..Len(charts.trend.data)}
                    = {a[1] : a \in ParsedDates(validated)}
              /\ \A k \in 1..Len(charts.trend.data) :
                    charts.trend.data[k][2] =
                        Cardinality({r \in ParsedRows(validated) :
                            to_datetime_cell(Column(validated, date)[r]).t[1]
                                = charts.trend.data[k][1]})
        /\ (ParsedRows(validated) = {} /\ charts.trend # Pending) =>
              charts.trend = None

(***************************************************************************)
(* C6, apart from the error: the same statement for the passes in which    *)
(* generate_insights returns.                                              *)
(***************************************************************************)
C6_WhenInsightsReturn ==
    (validated # None /\ OneColumn(validated, date)
        /\ (InsightsCalled => insights # None)) => C6_UnparseableDates

(***************************************************************************)
(* C7.  In a pass that reaches the export section, the processed-data      *)
(* export is the table validate_data returned: main's table is never       *)
(* changed by the metrics, the insights or the five chart builders.        *)
(***************************************************************************)
C7_ExportIsValidated ==
    /\ validated # None => df = validated
    /\ exports # None => exports.data = to_csv(validated)

\* an exported pass in which both copies handed out were converted
C7_Witness ==
    /\ exports # None
    /\ ins_df # validated
    /\ trend_df # validated
    /\ \E r \in 1..Len(validated.rows) :
          Column(validated, date)[r] = Str("not-a-date")

(***************************************************************************)
(* C8.  validate_data keeps every row, and warns exactly about the         *)
(* required columns absent from the normalized labels of the table it      *)
(* returns.                                                                *)
(***************************************************************************)
C8_MissingColumnWarning ==
    validated # None =>
        LET warned == UNION {
                {ui[i].missing[k] : k \in 1..Len(ui[i].missing)} :
                    i \in {j \in 1..Len(ui) : ui[j].kind = "warning"
                                              /\ "missing" \in DOMAIN ui[j]} }
        IN  /\ validated.rows = file.content.rows
            /\ validated.cols = [i \in 1..Len(file.content.cols) |->
                                    Strip(Lower(file.content.cols[i]))]
            /\ warned = {required_columns[k] : k \in {j \in 1..Len(required_columns) :
                            ~HasCol(validated, required_columns[j])}}

(***************************************************************************)
(* C9 as stated.  generate_insights leaves the table passed to it          *)
(* unchanged.                                                              *)
(***************************************************************************)
C9_ArgumentUnchanged ==
    InsightsCalled => ins_df = validated

(***************************************************************************)
(* C9 amended.  generate_insights changes the table passed to it in one    *)
(* way only: a date column is replaced by its parsed dates (a string by    *)
(* the Timestamp it names, or by a missing value when it names none).  No  *)
(* row is removed, no label and no other column changes; main's own table  *)
(* is untouched; and the call repeated on the table it left returns an     *)
(* equal list.                                                             *)
(***************************************************************************)
C9_OnlyDateColumnParsed ==
    InsightsCalled =>
        /\ df = validated
        /\ ins_df.cols = validated.cols
        /\ Len(ins_df.rows) = Len(validated.rows)
        /\ \A r \in 1..Len(validated.rows) : \A i \in 1..Len(validated.cols) :
              LET old == validated.rows[r][i]
                  new == ins_df.rows[r][i]
              IN  \/ new = old
                  \/ /\ validated.cols[i] = date
                     /\ "s" \in DOMAIN old
                     /\ \/ new = NaN /\ \A k \in 1..Len(DateTexts) : DateTexts[k] # old.s
                        \/ \E k \in 1..Len(DateTexts) :
                              DateTexts[k] = old.s /\ new = [t |-> <<k - 1, 0>>]
        /\ insights # None =>
              generate_insights(ins_df, metrics).insights = insights.list

\* a call that returned its list and converted the date column of its argument
C9_Witness ==
    /\ InsightsCalled
    /\ insights # None
    /\ ins_df # validated
    /\ "avg_daily_calls" \in InsightKinds

(***************************************************************************)
(* C10.  generate_insights is total: called with the metrics of the table, *)
(* it returns its list and raises nothing.                                 *)
(***************************************************************************)
C10_InsightsTotal ==
    InsightsCalled => insights # None

====
